---- MODULE Spec2Model ----
(***************************************************************************)
(* Model of main.py of Bluesky-Alt-Text-Cop: the firehose consumer that    *)
(* replies to posts whose images have an empty alt text, with its token    *)
(* cache, its reply_log table and its reconnect loop.                      *)
(*                                                                         *)
(* Time is in seconds.  `now` is the true instant (epoch seconds) and `tz` *)
(* the UTC offset of the host's local zone, fixed for a run:               *)
(*   datetime.now()                     is  now + tz   (naive local time)  *)
(*   datetime.utcnow()                  is  now        (naive UTC time)    *)
(*   int(datetime.utcnow().timestamp()) is  now - tz   (a naive datetime   *)
(*        is read as local time by .timestamp())                           *)
(* The process is single-threaded: pc is the position of that one thread.  *)
(* The database is taken to be reliable (its statements do not raise).     *)
(***************************************************************************)
EXTENDS Integers, Sequences, FiniteSets, TLC

VARIABLES
    pc,            \* position of the single thread
    now,           \* true time, epoch seconds
    tz,            \* UTC offset of the local zone, seconds
    reply_log,     \* rows of table reply_log
    access_token,  \* global access_token
    token_expiry,  \* global token_expiry (naive UTC instant) or NoneExpiry
    msg,           \* the message on_message_handler is working on
    opi,           \* index of the current op in commit.ops
    imgi,          \* index of the current image in images
    delivered,     \* number of messages handed to on_message_handler
    cur,           \* history: what the handler did for msg
    prev,          \* history: the message handled before msg
    accepted,      \* history: reply records accepted by createRecord
    updates,       \* history: update_reply_log calls per repo
    faults,        \* number of subscription failures so far
    last_submit,   \* history: the instant of the last POST to createRecord
    authlog        \* history: the current / last get_access_token call

vars == <<pc, now, tz, reply_log, access_token, token_expiry, msg, opi, imgi,
          delivered, cur, prev, accepted, updates, faults, last_submit, authlog>>

-----------------------------------------------------------------------------
(* Bounds of the model *)

MaxMsgs == 2          \* messages delivered in one run
MaxImages == 2        \* images in one embed
MaxRateLimited == 2   \* consecutive 429 answers to one get_access_token call
MaxFaults == 1        \* subscription failures in one run
StartTime == 86400    \* the instant the process starts
TokenLifetime == 7200 \* exp - now of a token the auth endpoint issues

(* Program constants *)

HOUR == 60 * 60
DAY == 24 * HOUR
COOLDOWN_DAYS == 7
COOLDOWN == COOLDOWN_DAYS * DAY
PACING_millis == 5 \div 1000  \* the pause taken for milliseconds
PACING == 5
FALLBACK_WAIT == 60
RECONNECT_DELAY_backoff == 10 * faults  \* a delay that grows with the failures
RECONNECT_DELAY == 10

Max(a, b) == IF a >= b THEN a ELSE b

-----------------------------------------------------------------------------
(* Inputs *)

Repos == {"did:plc:abc", "did:plc:xyz"}
BLUESKY_HANDLE == "altcop.bsky.social"

TZOffsets == {0 - HOUR, 0, HOUR}
Deltas == {HOUR, COOLDOWN, COOLDOWN + 1}  \* the wait for the next message
ResetOffsets == {5}                       \* RateLimit-Reset minus the true time

NoAlt == "<no alt key>"
Alts == {"", "a photo", NoAlt}
ImageSeqs == UNION {[1..n -> Alts] : n \in 0..MaxImages}

POST == "app.bsky.feed.post"
IMAGES == "app.bsky.embed.images"
NoEmbed == "<no embed>"
NoType == "<no record>"

\* what car.blocks.get(op.cid) returns; NoRecord is None (cid not in the CAR,
\* or no CAR that can be read)
Rec(ty, em, im) == [type |-> ty, embed |-> em, images |-> im]
NoRecord == Rec(NoType, NoEmbed, <<>>)
ImagePosts == {Rec(POST, IMAGES, s) : s \in ImageSeqs}
OtherRecs == {Rec(POST, NoEmbed, <<>>),
              Rec(POST, "app.bsky.embed.external", <<"">>),
              Rec("app.bsky.feed.like", IMAGES, <<"">>),
              NoRecord}

Op(a, c, r) == [action |-> a, hascid |-> c, rec |-> r]
CreateOps == {Op("create", TRUE, r) : r \in ImagePosts \cup OtherRecs}
IgnoredOps == {Op("update", TRUE, Rec(POST, IMAGES, <<"">>)),
               Op("delete", FALSE, Rec(POST, IMAGES, <<"">>)),
               Op("create", FALSE, Rec(POST, IMAGES, <<"">>))}
CoreOps == {Op("create", TRUE, Rec(POST, IMAGES, <<"">>)),
            Op("create", TRUE, NoRecord),
            Op("update", TRUE, Rec(POST, IMAGES, <<"">>))}
OpSeqs == {<<o>> : o \in CreateOps \cup IgnoredOps}
          \cup {<<o1, o2>> : o1 \in CoreOps, o2 \in CoreOps}

Message(k, r, b, os) == [kind |-> k, repo |-> r, blocks |-> b, ops |-> os]
NoMessage == Message("none", "", "absent", <<>>)
FirstRepo == "did:plc:abc"
Commits == {Message("commit", FirstRepo, "car", os) : os \in OpSeqs}
           \cup {Message("commit", r, "car", <<o>>) : r \in Repos, o \in CoreOps}
Undecodable == {Message("identity", FirstRepo, "absent", <<>>)}
               \cup {Message("commit", FirstRepo, b, <<Op("create", TRUE, NoRecord)>>) :
                        b \in {"absent", "malformed"}}
Messages == Commits \cup Undecodable

CidOf(i) == IF i = 1 THEN "bafyA" ELSE "bafyB"
PathOf(i) == IF i = 1 THEN "app.bsky.feed.post/3kA" ELSE "app.bsky.feed.post/3kB"
op_cid(m, i) == IF m.ops[i].hascid THEN CidOf(i) ELSE ""

-----------------------------------------------------------------------------
(* Clocks and the timestamp text of the table *)

datetime_now == now + tz
utcnow == now
utcnow_timestamp == now - tz

\* datetime.isoformat(): the date and the time of day, as text
isoformat(t) == <<t \div DAY, t % DAY>>
fromisoformat(s) == s[1] * DAY + s[2]

-----------------------------------------------------------------------------
(* The table reply_log(repo PRIMARY KEY, last_reply_timestamp) *)

Row(repo, ts) == [repo |-> repo, last_reply_timestamp |-> ts]

initialize_db(table) == table

\* a plain INSERT into a table without the primary key
insert_only(table, repo, ts) == table \cup {Row(repo, ts)}

insert_or_replace(table, repo, ts) ==
    {r \in table : r.repo # repo} \cup {Row(repo, ts)}

\* the INSERT is never committed
update_reply_log_uncommitted(table, repo, localnow) == table

update_reply_log(table, repo, localnow) ==
    insert_or_replace(table, repo, isoformat(localnow))

select_rows(table, repo) == {r \in table : r.repo = repo}

\* the comparison of line 65 turned round
should_send_reply_inverted(table, repo, current_time) ==
    LET result == select_rows(table, repo) IN
    IF result = {} THEN TRUE
    ELSE LET last_reply_time ==
                 fromisoformat((CHOOSE r \in result : TRUE).last_reply_timestamp)
         IN current_time - last_reply_time < COOLDOWN

\* the comparison of line 65 with >= for >
should_send_reply_inclusive(table, repo, current_time) ==
    LET result == select_rows(table, repo) IN
    IF result = {} THEN TRUE
    ELSE LET last_reply_time ==
                 fromisoformat((CHOOSE r \in result : TRUE).last_reply_timestamp)
         IN current_time - last_reply_time >= COOLDOWN

\* the row found is not looked at
should_send_reply_always(table, repo, current_time) == TRUE

should_send_reply(table, repo, current_time) ==
    LET result == select_rows(table, repo) IN
    IF result = {} THEN TRUE
    ELSE LET last_reply_time ==
                 fromisoformat((CHOOSE r \in result : TRUE).last_reply_timestamp)
         IN current_time - last_reply_time > COOLDOWN

-----------------------------------------------------------------------------
(* Tokens and HTTP answers *)

NoExp == 0 - 1
NoneExpiry == 0 - 1
NoHeader == 0 - 1
Token(k, iat, exp) == [kind |-> k, iat |-> iat, exp |-> exp]
NoneToken == Token("None", 0 - 1, NoExp)
Garbage(iat) == Token("garbage", iat, NoExp)

\* a token without an exp claim never expires
decoded_expiry_never(tok) == IF tok.exp = NoExp THEN 2147483647 ELSE tok.exp

\* jwt.decode(...).get('exp', 0), then datetime.utcfromtimestamp
decoded_expiry(tok) == IF tok.exp = NoExp THEN 0 ELSE tok.exp

\* status 0: no answer at all (requests raises a RequestException)
AuthResp(st, reset, tok) == [status |-> st, reset |-> reset, token |-> tok]
AuthResponses(t) ==
    {AuthResp(429, t + o, NoneToken) : o \in ResetOffsets}
    \cup {AuthResp(429, NoHeader, NoneToken),
          AuthResp(200, NoHeader, Token("jwt", t, t + TokenLifetime)),
          AuthResp(200, NoHeader, Token("jwt", t, NoExp)),
          AuthResp(200, NoHeader, Garbage(t)),
          AuthResp(401, NoHeader, NoneToken),
          AuthResp(0, NoHeader, NoneToken)}

CoreAuthResponses(t) ==
    {AuthResp(200, NoHeader, Token("jwt", t, t + TokenLifetime)),
     AuthResp(401, NoHeader, NoneToken)}

\* stored: the endpoint accepted and stored the record
SubmitResp(st, reset, stored) == [status |-> st, reset |-> reset, stored |-> stored]
SubmitResponses(t) ==
    {SubmitResp(429, t + o, FALSE) : o \in ResetOffsets}
    \cup {SubmitResp(429, NoHeader, FALSE),
          SubmitResp(200, NoHeader, TRUE),
          SubmitResp(0, NoHeader, TRUE),
          SubmitResp(0, NoHeader, FALSE),
          SubmitResp(400, NoHeader, FALSE)}

CoreSubmitResponses(t) ==
    {SubmitResp(200, NoHeader, TRUE),
     SubmitResp(0, NoHeader, TRUE),
     SubmitResp(400, NoHeader, FALSE)}

PlainSubmitResponses(t) ==
    {SubmitResp(200, NoHeader, TRUE),
     SubmitResp(400, NoHeader, FALSE)}

\* the sleep after a 429 answer, read at clock reading ts (lines 93-99, 188-194)
rate_limit_wait(reset_time, ts) ==
    IF reset_time # NoHeader THEN Max(0, reset_time - ts) ELSE FALLBACK_WAIT

\* only the 5xx answers raise
raise_for_status_server_errors(st) == st >= 500 /\ st < 600

raise_for_status(st) == st >= 400 /\ st < 600

\* the "reply" part of reply_record
reply_record(post_uri, post_cid) ==
    [root   |-> [uri |-> post_uri, cid |-> post_cid],
     parent |-> [uri |-> post_uri, cid |-> post_cid]]

post_uri(m, i) == <<"at://", m.repo, "/", PathOf(i)>>

-----------------------------------------------------------------------------
(* History records *)

NewCur(m, t, table) ==
    [msg |-> m, t0 |-> t, log0 |-> table, flagged |-> {}, sends |-> <<>>,
     upserts |-> <<>>, raised |-> {}, escaped |-> FALSE, done |-> FALSE,
     tdone |-> 0 - 1]
\* no POST to createRecord was made yet
Never == 0 - 1

Send(i, j, r, rec) ==
    [op |-> i, img |-> j, repo |-> r, reply |-> rec, result |-> "pending",
     submits |-> 0, sent_at |-> Never, status |-> 0 - 1, reset |-> NoHeader,
     slept |-> 0, expiry |-> NoneExpiry]
NoAuth == [result |-> "none", tok0 |-> NoneToken, exp0 |-> NoneExpiry,
           exchanges |-> 0, k429 |-> 0, sleeps |-> <<>>]
NewAuth(tok, exp) == [NoAuth EXCEPT !.result = "running", !.tok0 = tok, !.exp0 = exp]
Slept(t, reset, dur) == [at |-> t, reset |-> reset, dur |-> dur]
NoUpdate == [n |-> 0, last |-> 0 - 1]

\* the POST of the create_reply call in progress: made at t with a token
\* whose cached expiry is expiry, answered by resp, followed by a sleep
Submitted(c, t, resp, slept, expiry) ==
    [c EXCEPT !.sends[Len(c.sends)] =
        [@ EXCEPT !.submits = @ + 1, !.sent_at = t, !.status = resp.status,
                  !.reset = resp.reset, !.slept = slept, !.expiry = expiry]]

\* the record of the create_reply call in progress, closed with result r
CloseSend(c, r) == [c EXCEPT !.sends[Len(c.sends)].result = r]
Finish(c, t) == [c EXCEPT !.done = TRUE, !.tdone = t]
NoCur == NewCur(NoMessage, 0 - 1, {})

\* what is kept of a handled message once the next one arrives: only a
\* message answered by exactly one reply, to an account that had no row
Kept(m, t) == [msg |-> m, tdone |-> t]
NoPrev == Kept(NoMessage, 0 - 1)
Keep(c) ==
    IF /\ Len(c.sends) = 1
       /\ c.sends[1].result = "returned"
       /\ \A r \in c.log0 : r.repo # c.msg.repo
      THEN Kept(c.msg, c.tdone) ELSE NoPrev

-----------------------------------------------------------------------------
(* The state machine *)

Init ==
    /\ pc = "start"
    /\ now = StartTime
    /\ tz \in TZOffsets
    /\ reply_log = {}
    /\ access_token = NoneToken
    /\ token_expiry = NoneExpiry
    /\ msg = NoMessage
    /\ opi = 0
    /\ imgi = 0
    /\ delivered = 0
    /\ cur = NoCur
    /\ prev = NoPrev
    /\ accepted = <<>>
    /\ updates = [r \in Repos |-> NoUpdate]
    /\ faults = 0
    /\ last_submit = Never
    /\ authlog = NoAuth

tokenVars == <<access_token, token_expiry, authlog>>
handlerVars == <<msg, opi, imgi, delivered, cur, prev>>
ledgerVars == <<reply_log, updates>>

\* main, line 261
main_initialize_db ==
    /\ UNCHANGED last_submit
    /\ pc = "start"
    /\ reply_log' = initialize_db(reply_log)
    /\ pc' = "connecting"
    /\ UNCHANGED <<now, tz, tokenVars, handlerVars, accepted, updates, faults>>

\* main, line 265: client.start subscribes, or raises at once
client_start(subscribed) ==
    /\ UNCHANGED last_submit
    /\ pc = "connecting"
    /\ IF subscribed
         THEN pc' = "streaming" /\ faults' = faults
         ELSE faults < MaxFaults /\ pc' = "faulted" /\ faults' = faults + 1
    /\ UNCHANGED <<now, tz, tokenVars, handlerVars, ledgerVars, accepted>>

\* main, lines 265-267: the subscription breaks while streaming
subscription_fault ==
    /\ UNCHANGED last_submit
    /\ pc = "streaming"
    /\ faults < MaxFaults
    /\ faults' = faults + 1
    /\ pc' = "faulted"
    /\ UNCHANGED <<now, tz, tokenVars, handlerVars, ledgerVars, accepted>>

\* main, line 268
main_sleep ==
    /\ UNCHANGED last_submit
    /\ pc = "faulted"
    /\ now' = now + RECONNECT_DELAY
    /\ pc' = "connecting"
    /\ UNCHANGED <<tz, tokenVars, handlerVars, ledgerVars, accepted, faults>>

\* on_message_handler, lines 211-219: message m arrives d seconds after the
\* last step
on_message_handler(m, d) ==
    /\ UNCHANGED last_submit
    /\ pc = "streaming"
    /\ delivered < MaxMsgs
    /\ delivered' = delivered + 1
    /\ now' = now + d
    /\ msg' = m
    /\ opi' = 1
    /\ imgi' = 0
    /\ IF m.kind # "commit" \/ m.blocks = "absent"
         THEN /\ cur' = Finish(NewCur(m, now', reply_log), now')
              /\ pc' = "handled"
         ELSE IF m.blocks = "malformed"
         THEN /\ cur' = [Finish(NewCur(m, now', reply_log), now') EXCEPT !.escaped = TRUE]
              /\ pc' = "escaped"
         ELSE /\ cur' = NewCur(m, now', reply_log)
              /\ pc' = "ops"
    /\ UNCHANGED <<tz, tokenVars, prev, ledgerVars, accepted, faults>>

\* the handler has returned: the library waits for the next message
handler_return ==
    /\ UNCHANGED last_submit
    /\ pc = "handled"
    /\ pc' = "streaming"
    /\ prev' = Keep(cur)
    /\ cur' = NoCur
    /\ authlog' = NoAuth
    /\ msg' = NoMessage
    /\ opi' = 0
    /\ imgi' = 0
    /\ UNCHANGED <<now, tz, access_token, token_expiry, delivered, ledgerVars,
                   accepted, faults>>

\* an exception has left the handler (line 219 is outside the try of line
\* 222): the library that called it either goes on with the next message or
\* lets client.start raise, which main catches at line 266
handler_escape(goes_on) ==
    /\ UNCHANGED last_submit
    /\ pc = "escaped"
    /\ IF goes_on
         THEN pc' = "streaming" /\ faults' = faults
         ELSE pc' = "faulted" /\ faults' = faults + 1
    /\ prev' = Keep(cur)
    /\ cur' = NoCur
    /\ authlog' = NoAuth
    /\ msg' = NoMessage
    /\ opi' = 0
    /\ imgi' = 0
    /\ UNCHANGED <<now, tz, access_token, token_expiry, delivered, ledgerVars,
                   accepted>>

\* the test of line 226 left out
is_image_post_any_type(skeet) ==
    /\ skeet.embed # NoEmbed
    /\ skeet.embed = IMAGES

\* the tests of lines 226-232 on the record of an op
is_image_post(skeet) ==
    /\ skeet.type = POST
    /\ skeet.embed # NoEmbed
    /\ skeet.embed = IMAGES

\* every op with a cid is looked at, whatever its action
is_create_op_any_action(action, cid) == cid # ""

\* the test of line 221
is_create_op(action, cid) == action = "create" /\ cid # ""

\* the try of line 222 around the whole loop: an exception ends the loop
next_op_after_except_outside(i, n) == n + 1

\* lines 220-222 and 240-241: the try is inside the loop over ops, so after
\* an exception in op i of n the loop goes on with the next op
next_op_after_except(i, n) == i + 1

\* on_message_handler, lines 220-233 and 240-241: one turn of the loop over ops
handler_op ==
    /\ UNCHANGED last_submit
    /\ pc = "ops"
    /\ IF opi > Len(msg.ops)
         THEN /\ pc' = "handled"
              /\ cur' = Finish(cur, now)
              /\ UNCHANGED <<opi, imgi>>
         ELSE LET op == msg.ops[opi]
                  skeet == op.rec
              IN IF is_create_op(op.action, op_cid(msg, opi))
                   THEN IF skeet = NoRecord
                          THEN /\ cur' = [cur EXCEPT !.raised = @ \cup {opi}]
                               /\ opi' = next_op_after_except(opi, Len(msg.ops))
                               /\ UNCHANGED <<pc, imgi>>
                          ELSE IF is_image_post(skeet)
                                 THEN /\ pc' = "images"
                                      /\ imgi' = 1
                                      /\ UNCHANGED <<opi, cur>>
                                 ELSE /\ opi' = opi + 1
                                      /\ UNCHANGED <<pc, imgi, cur>>
                   ELSE /\ opi' = opi + 1
                        /\ UNCHANGED <<pc, imgi, cur>>
    /\ UNCHANGED <<now, tz, tokenVars, msg, delivered, prev, ledgerVars, accepted, faults>>

\* "not image.get('alt')" for the test of line 235
missing_alt_falsy(alt) == alt \in {"", NoAlt}

\* the test of line 235
missing_alt(alt) == alt = ""

\* on_message_handler, lines 234-238, and tell_off, lines 246-248: one turn
\* of the loop over images, up to the call of create_reply
handler_image ==
    /\ UNCHANGED last_submit
    /\ pc = "images"
    /\ LET images == msg.ops[opi].rec.images IN
       IF imgi > Len(images)
         THEN /\ pc' = "ops"
              /\ opi' = opi + 1
              /\ UNCHANGED <<imgi, cur>>
         ELSE IF missing_alt(images[imgi])
         THEN LET uri == post_uri(msg, opi)
                  cid == op_cid(msg, opi)
                  c == [cur EXCEPT !.flagged = @ \cup {<<opi, imgi>>}]
              IN IF should_send_reply(reply_log, msg.repo, datetime_now)
                   THEN /\ pc' = "ensure_valid_token"
                        /\ cur' = [c EXCEPT !.sends =
                                     Append(@, Send(opi, imgi, msg.repo, reply_record(uri, cid)))]
                        /\ UNCHANGED <<opi, imgi>>
                   ELSE /\ cur' = c
                        /\ imgi' = imgi + 1
                        /\ UNCHANGED <<pc, opi>>
         ELSE /\ imgi' = imgi + 1
              /\ UNCHANGED <<pc, opi, cur>>
    /\ authlog' = NoAuth
    /\ UNCHANGED <<now, tz, access_token, token_expiry, msg, delivered, prev,
                   ledgerVars, accepted, faults>>

\* a cached token counts as usable whatever its expiry
token_usable_any_expiry(tok, expiry, t) ==
    ~ (tok = NoneToken \/ expiry = NoneExpiry)

\* the test of line 125
token_usable(tok, expiry, t) ==
    ~ (tok = NoneToken \/ expiry = NoneExpiry \/ t >= expiry)

\* ensure_valid_token, lines 122-127, called at line 132
ensure_valid_token ==
    /\ UNCHANGED last_submit
    /\ pc = "ensure_valid_token"
    /\ IF token_usable(access_token, token_expiry, utcnow)
         THEN pc' = "submit" /\ authlog' = authlog
         ELSE pc' = "get_access_token" /\ authlog' = NewAuth(access_token, token_expiry)
    /\ UNCHANGED <<now, tz, access_token, token_expiry, handlerVars, ledgerVars,
                   accepted, faults>>

\* tell_off, lines 251-252: the exception of create_reply is logged, and the
\* loop over images goes on
tell_off_except ==
    /\ cur' = CloseSend(cur, "raised")
    /\ imgi' = imgi + 1
    /\ pc' = "images"

\* the body of the answer is stored before its status is looked at
auth_exchange_parse_first(resp, tok, expiry) ==
    IF resp.status = 0
      THEN [result |-> "network_error", token |-> tok, expiry |-> expiry]
    ELSE IF resp.status = 429
      THEN [result |-> "running", token |-> tok, expiry |-> expiry]
    ELSE IF raise_for_status(resp.status)
      THEN [result |-> "http_error", token |-> resp.token, expiry |-> expiry]
    ELSE IF resp.token.kind = "jwt"
      THEN [result |-> "returned", token |-> resp.token,
            expiry |-> decoded_expiry(resp.token)]
    ELSE [result |-> "decode_error", token |-> resp.token, expiry |-> expiry]

\* get_access_token, lines 79-120: what one answer of the auth endpoint does
\* to the call and to the two globals tok and expiry
auth_exchange(resp, tok, expiry) ==
    IF resp.status = 0
      THEN [result |-> "network_error", token |-> tok, expiry |-> expiry]
    ELSE IF resp.status = 429
      THEN [result |-> "running", token |-> tok, expiry |-> expiry]
    ELSE IF raise_for_status(resp.status)
      THEN [result |-> "http_error", token |-> tok, expiry |-> expiry]
    ELSE IF resp.token.kind = "jwt"
      THEN [result |-> "returned", token |-> resp.token,
            expiry |-> decoded_expiry(resp.token)]
    ELSE [result |-> "decode_error", token |-> resp.token, expiry |-> expiry]

\* get_access_token, lines 77-120: one exchange with the auth endpoint
get_access_token(resp) ==
    /\ UNCHANGED last_submit
    /\ pc = "get_access_token"
    /\ LET out == auth_exchange(resp, access_token, token_expiry)
           log == [authlog EXCEPT !.exchanges = @ + 1, !.result = out.result]
       IN
       /\ access_token' = out.token
       /\ token_expiry' = out.expiry
       /\ IF out.result = "running"
            THEN LET wait_time == rate_limit_wait(resp.reset, utcnow_timestamp) IN
                 /\ authlog.k429 < MaxRateLimited
                 /\ now' = now + wait_time
                 /\ authlog' = [log EXCEPT !.k429 = @ + 1,
                                           !.sleeps = Append(@, Slept(now, resp.reset, wait_time))]
                 /\ UNCHANGED <<pc, cur, imgi>>
            ELSE /\ authlog' = log
                 /\ now' = now
                 /\ IF out.result = "returned"
                      THEN pc' = "submit" /\ UNCHANGED <<cur, imgi>>
                      ELSE tell_off_except
    /\ UNCHANGED <<tz, msg, opi, delivered, prev, ledgerVars, accepted, faults>>

\* create_reply, lines 134-205, and tell_off, lines 248-252: the pacing
\* sleep, the one submission and what follows from its answer
create_reply(resp) ==
    /\ pc = "submit"
    /\ LET sent_at == now + PACING
           s == cur.sends[Len(cur.sends)]
           returns == resp.status # 0 /\ ~ raise_for_status(resp.status)
           wait_time == IF resp.status = 429
                          THEN rate_limit_wait(resp.reset, sent_at - tz)
                          ELSE 0
           c == Submitted(cur, sent_at, resp, wait_time, token_expiry)
       IN
       /\ last_submit' = sent_at
       /\ accepted' = IF resp.stored
                        THEN Append(accepted, [repo |-> msg.repo, reply |-> s.reply,
                                               handle |-> BLUESKY_HANDLE,
                                               at |-> sent_at, recorded |-> returns])
                        ELSE accepted
       /\ now' = sent_at + wait_time
       /\ IF returns
            THEN /\ reply_log' = update_reply_log(reply_log, msg.repo, now' + tz)
                 /\ updates' = [updates EXCEPT ![msg.repo] =
                                   [n |-> @.n + 1, last |-> now' + tz]]
                 /\ cur' = [CloseSend(c, "returned")
                              EXCEPT !.upserts = Append(@, msg.repo)]
            ELSE /\ cur' = CloseSend(c, "raised")
                 /\ UNCHANGED <<reply_log, updates>>
       /\ imgi' = imgi + 1
       /\ pc' = "images"
    /\ UNCHANGED <<tz, tokenVars, msg, opi, delivered, prev, faults>>

\* the first message arrives an hour after the start
FirstDelta(ds) == IF delivered = 0 THEN {HOUR} ELSE ds

\* the whole program on a host in UTC: every kind of message, an hour apart,
\* with the answers of the two endpoints that steer it
InitUTC == Init /\ tz = 0

Next ==
    \/ main_initialize_db
    \/ \E subscribed \in BOOLEAN : client_start(subscribed)
    \/ subscription_fault
    \/ main_sleep
    \/ \E m \in Messages, d \in FirstDelta({HOUR}) : on_message_handler(m, d)
    \/ handler_return
    \/ \E goes_on \in BOOLEAN : handler_escape(goes_on)
    \/ handler_op
    \/ handler_image
    \/ ensure_valid_token
    \/ \E resp \in CoreAuthResponses(now) : get_access_token(resp)
    \/ \E resp \in PlainSubmitResponses(now + PACING) : create_reply(resp)

Spec == InitUTC /\ [][Next]_vars

\* the cooldown: posts of every account with one or two images without alt
\* text, arriving within, at the end of and after the cooldown of the last one
CooldownMessages ==
    {Message("commit", r, "car", <<Op("create", TRUE, Rec(POST, IMAGES, s))>>) :
        r \in Repos, s \in {<<"">>, <<"", "">>}}

NextCooldown ==
    \/ main_initialize_db
    \/ client_start(TRUE)
    \/ \E m \in CooldownMessages, d \in FirstDelta(Deltas) : on_message_handler(m, d)
    \/ handler_return
    \/ handler_op
    \/ handler_image
    \/ ensure_valid_token
    \/ \E resp \in CoreAuthResponses(now) : get_access_token(resp)
    \/ \E resp \in CoreSubmitResponses(now + PACING) : create_reply(resp)

\* on a host in UTC or east of it
InitCooldown == Init /\ tz >= 0

SpecCooldown == InitCooldown /\ [][NextCooldown]_vars

\* one post with one or two images without alt text, with every answer of
\* the two endpoints
HttpMessages ==
    {Message("commit", FirstRepo, "car", <<Op("create", TRUE, Rec(POST, IMAGES, s))>>) :
        s \in {<<"">>, <<"", "">>}}

NextHttp ==
    \/ main_initialize_db
    \/ client_start(TRUE)
    \/ \E m \in HttpMessages : delivered = 0 /\ on_message_handler(m, HOUR)
    \/ handler_return
    \/ handler_op
    \/ handler_image
    \/ ensure_valid_token
    \/ \E resp \in AuthResponses(now) : get_access_token(resp)
    \/ \E resp \in SubmitResponses(now + PACING) : create_reply(resp)

SpecHttp == Init /\ [][NextHttp]_vars

-----------------------------------------------------------------------------
(* The cooldown (SpecCooldown) *)

Age(ts) == datetime_now - fromisoformat(ts)

\* C1: create_reply is never invoked, via tell_off, for an account that has
\* a reply_log row whose last_reply_timestamp is less than 7 days before the
\* current time.  pc = "ensure_valid_token" is the instant of the call.
C1_NoDispatchInsideCooldown ==
    pc = "ensure_valid_token" =>
        \A r \in select_rows(reply_log, msg.repo) :
            ~ (Age(r.last_reply_timestamp) < COOLDOWN)

\* C1 witness: tell_off was called for an image of an account whose row is
\* less than 7 days old, and create_reply was not called
C1_Witness ==
    /\ pc = "images"
    /\ cur.flagged # {}
    /\ cur.sends = <<>>
    /\ \E r \in select_rows(reply_log, msg.repo) : Age(r.last_reply_timestamp) < COOLDOWN

SameAccount(i, j) == accepted[i].repo = accepted[j].repo

E2E(m) ==
    /\ m.kind = "commit"
    /\ m.blocks = "car"
    /\ m.ops = <<Op("create", TRUE, Rec(POST, IMAGES, <<"">>))>>

HasRow(table, repo) == \E r \in table : r.repo = repo

\* C3: end to end, for an account with no row, a commit with a create op for
\* a post with exactly one image whose alt text is "" gives exactly one
\* dispatched reply, whose root and parent are at://<repo>/<op path> and the
\* cid of the op, and, when the submission succeeds, exactly one upsert keyed
\* by that account; the same message an hour later gives no dispatch and
\* leaves the table as it is
C3_EndToEnd ==
    (pc = "handled" /\ E2E(cur.msg)) =>
        /\ ~ HasRow(cur.log0, cur.msg.repo) =>
              /\ Len(cur.sends) = 1
              /\ LET target == [uri |-> <<"at://", cur.msg.repo, "/", PathOf(1)>>,
                                cid |-> CidOf(1)]
                 IN cur.sends[1].reply = [root |-> target, parent |-> target]
              /\ cur.sends[1].result = "returned" =>
                    /\ cur.upserts = <<cur.msg.repo>>
                    /\ Cardinality(select_rows(reply_log, cur.msg.repo)) = 1
                    /\ \A r \in reply_log : r.repo # cur.msg.repo => r \in cur.log0
        /\ (prev.msg = cur.msg /\ cur.t0 = prev.tdone + HOUR) =>
              /\ cur.sends = <<>>
              /\ cur.upserts = <<>>
              /\ reply_log = cur.log0

\* C3 witness: the second, identical message, an hour after the first was
\* answered, has been handled
C3_Witness ==
    /\ pc = "handled"
    /\ E2E(cur.msg)
    /\ prev.msg = cur.msg
    /\ cur.t0 = prev.tdone + HOUR
    /\ cur.flagged = {<<1, 1>>}

\* C4: should_send_reply(id) is true before any update_reply_log(id) call,
\* false from the call up to 7 days after it, and true again once more than
\* 7 days have passed since the last call
C4_MayReplyFollowsCooldown ==
    \A id \in Repos :
        LET may == should_send_reply(reply_log, id, datetime_now) IN
        IF updates[id].n = 0 THEN may
        ELSE may <=> (datetime_now - updates[id].last > COOLDOWN)

\* C4 witness: more than 7 days after update_reply_log(id), the account may
\* be replied to again
C4_Witness ==
    \E id \in Repos :
        /\ updates[id].n > 0
        /\ datetime_now - updates[id].last > COOLDOWN
        /\ should_send_reply(reply_log, id, datetime_now)

\* C5: the table holds at most one row per account, and after update_reply_log
\* calls for an account its one row carries the instant of the last call
C5_OneRowPerAccount ==
    \A id \in Repos :
        /\ Cardinality(select_rows(reply_log, id)) <= 1
        /\ updates[id].n > 0 =>
              /\ Cardinality(select_rows(reply_log, id)) = 1
              /\ \A r \in select_rows(reply_log, id) :
                     fromisoformat(r.last_reply_timestamp) = updates[id].last

\* C5 witness: update_reply_log was called twice for one account
C5_Witness == \E id \in Repos : updates[id].n >= 2

-----------------------------------------------------------------------------
(* The filter and the decoding (Spec) *)

Created(m, i) == m.ops[i].action = "create" /\ op_cid(m, i) # ""

\* C6: an image of an app.bsky.embed.images embed of a created post is
\* flagged (tell_off is called for it) if and only if its alt text is exactly
\* the empty string; with another alt text, or with none, it is not flagged
C6_FlaggedIffEmptyAlt ==
    pc = "handled" =>
        \A i \in 1..Len(cur.msg.ops) :
            LET rec == cur.msg.ops[i].rec IN
            (Created(cur.msg, i) /\ rec.type = POST /\ rec.embed = IMAGES) =>
                \A j \in 1..Len(rec.images) :
                    (<<i, j>> \in cur.flagged) <=> (rec.images[j] = "")

\* C6 witness: a post with a flagged image and an image without the alt key
C6_Witness ==
    /\ pc = "handled"
    /\ \E i \in 1..Len(cur.msg.ops) :
          /\ Created(cur.msg, i)
          /\ \E j, k \in 1..Len(cur.msg.ops[i].rec.images) :
                /\ <<i, j>> \in cur.flagged
                /\ cur.msg.ops[i].rec.images[k] = NoAlt

\* the record has no embed, an embed of another type, or another type tag
OutOfScope(rec) ==
    /\ rec # NoRecord
    /\ rec.embed = NoEmbed \/ rec.embed # IMAGES \/ rec.type # POST

\* C7: a message whose created records have no embed, an embed type other
\* than app.bsky.embed.images, or a type tag other than app.bsky.feed.post
\* gives no dispatched reply and leaves the table as it is
C7_NoReplyWithoutImageEmbed ==
    (/\ pc = "handled"
     /\ cur.msg.kind = "commit"
     /\ cur.msg.blocks = "car"
     /\ \A i \in 1..Len(cur.msg.ops) :
           cur.msg.ops[i].action = "create" => OutOfScope(cur.msg.ops[i].rec))
        => /\ cur.sends = <<>>
           /\ cur.flagged = {}
           /\ reply_log = cur.log0

\* C7 witness: a record that is not a post but has an images embed with an
\* image without alt text was handled, with a row in the table
C7_Witness ==
    /\ pc = "handled"
    /\ cur.msg.blocks = "car"
    /\ Len(cur.msg.ops) = 1
    /\ Created(cur.msg, 1)
    /\ cur.msg.ops[1].rec = Rec("app.bsky.feed.like", IMAGES, <<"">>)
    /\ reply_log # {}

\* C8: for a message that is not a commit, or whose block container is absent
\* or malformed, on_message_handler ends without an exception leaving it
C8_DecodeFailureStaysInside ==
    (cur.msg.kind \in {"identity", "commit"}
       /\ (cur.msg.kind # "commit" \/ cur.msg.blocks \in {"absent", "malformed"}))
        => (pc # "escaped" /\ ~ cur.escaped)

-----------------------------------------------------------------------------
(* The credential manager (SpecHttp) *)

\* C9: after each 429 get_access_token sleeps until the RateLimit-Reset
\* instant (max(0, reset - now) seconds, 60 seconds without the header), and
\* after k of them and a 200 it has made k + 1 exchanges and holds the new
\* token and its decoded expiry
C9_WaitsUntilResetThenSucceeds ==
    authlog.result \in {"running", "returned"} =>
        /\ \A i \in 1..Len(authlog.sleeps) :
              LET s == authlog.sleeps[i] IN
              s.dur = IF s.reset # NoHeader THEN Max(0, s.reset - s.at)
                      ELSE FALLBACK_WAIT
        /\ Len(authlog.sleeps) = authlog.k429
        /\ authlog.result = "returned" =>
              /\ authlog.exchanges = authlog.k429 + 1
              /\ access_token.kind = "jwt"
              /\ token_expiry = decoded_expiry(access_token)

\* C10: on a non-429 HTTP error status or a network error get_access_token
\* does not retry: it raises after that attempt, and access_token and
\* token_expiry are what they were when it was called
C10_AuthErrorLeavesTokenAlone ==
    authlog.result \in {"http_error", "network_error"} =>
        /\ pc = "images"
        /\ cur.sends[Len(cur.sends)].result = "raised"
        /\ authlog.exchanges = authlog.k429 + 1
        /\ access_token = authlog.tok0
        /\ token_expiry = authlog.exp0

\* C10 witness: a call made with a token in the cache has ended on an HTTP
\* error status
C10_Witness ==
    /\ authlog.result = "http_error"
    /\ authlog.tok0 # NoneToken
    /\ access_token # NoneToken

\* the supervisor: messages that end without a reply, or with an exception
\* that leaves the handler, and subscriptions that break
SupervisorMessages ==
    Undecodable
    \cup {Message("commit", FirstRepo, "car", <<o>>) :
             o \in IgnoredOps \cup {Op("create", TRUE, r) : r \in OtherRecs}}

NextSupervisor ==
    \/ main_initialize_db
    \/ \E subscribed \in BOOLEAN : client_start(subscribed)
    \/ subscription_fault
    \/ main_sleep
    \/ \E m \in SupervisorMessages : on_message_handler(m, HOUR)
    \/ handler_return
    \/ \E goes_on \in BOOLEAN : handler_escape(goes_on)
    \/ handler_op

\* main is the one thread of the program and time.sleep(10) returns: the
\* step after the except clause of line 266 is taken
SpecSupervisor == InitUTC /\ [][NextSupervisor]_vars /\ WF_vars(main_sleep)

\* the next message arrives an hour after the last one ended, or a few
\* seconds before the token cached while answering the last one expires
ExpiryDeltas == {HOUR, TokenLifetime - PACING - 3}

NextExpiry ==
    \/ main_initialize_db
    \/ client_start(TRUE)
    \/ \E m \in HttpMessages, d \in FirstDelta(ExpiryDeltas) : on_message_handler(m, d)
    \/ handler_return
    \/ handler_op
    \/ handler_image
    \/ ensure_valid_token
    \/ \E resp \in CoreAuthResponses(now) : get_access_token(resp)
    \/ \E resp \in PlainSubmitResponses(now + PACING) : create_reply(resp)

SpecExpiry == InitUTC /\ [][NextExpiry]_vars

-----------------------------------------------------------------------------
(* C11 *)

\* the instant at which the ensure_valid_token call in progress was made: no
\* time passes in it before its first sleep
CallTime == IF authlog.sleeps = <<>> THEN now ELSE authlog.sleeps[1].at

\* line 125 read off the globals: a token, an expiry, and the expiry strictly
\* in the future
CachedAndFresh ==
    /\ access_token # NoneToken
    /\ token_expiry # NoneExpiry
    /\ utcnow < token_expiry

\* C11: ensure_valid_token makes no exchange and leaves access_token and
\* token_expiry alone when a token is cached and its expiry is strictly in
\* the future; in every other state (no token, no expiry, now >= expiry) it
\* makes an exchange, and when the exchange succeeds the globals hold the
\* token just issued and the expiry decoded from its exp claim.
C11_RefreshOnlyWhenNeeded ==
    /\ [][pc = "ensure_valid_token" =>
            IF CachedAndFresh
              THEN /\ pc' = "submit"
                   /\ authlog'.exchanges = 0
                   /\ access_token' = access_token
                   /\ token_expiry' = token_expiry
              ELSE /\ pc' = "get_access_token"
                   /\ authlog'.tok0 = access_token
                   /\ authlog'.exp0 = token_expiry]_vars
    /\ [](pc = "get_access_token" =>
            /\ authlog.result = "running"
            /\ (authlog.tok0 = NoneToken \/ authlog.exp0 = NoneExpiry
                   \/ CallTime >= authlog.exp0))
    /\ []((pc = "submit" /\ authlog.result = "none") =>
            authlog.exchanges = 0 /\ CachedAndFresh)
    /\ []((pc = "submit" /\ authlog.result # "none") =>
            /\ authlog.result = "returned"
            /\ authlog.exchanges >= 1
            /\ access_token.kind = "jwt"
            /\ access_token.iat = now
            /\ token_expiry = (IF access_token.exp = NoExp THEN 0
                                 ELSE access_token.exp))

\* a second image of a post is about to be submitted with the token cached by
\* the first, without an exchange
C11_Witness ==
    /\ pc = "submit"
    /\ authlog.result = "none"
    /\ Len(cur.sends) = 2
    /\ cur.sends[1].result = "raised"
    /\ cur.sends[1].submits = 1

-----------------------------------------------------------------------------
(* C12 *)

\* C12: create_reply submits the reply record once per call; on a 429 it
\* sleeps until the reset instant of the answer (60 s when the header is
\* absent) and then raises without submitting again; any status >= 400 makes
\* the call raise instead of returning.
C12_OneSubmissionThenRaise ==
    \A k \in 1..Len(cur.sends) :
        LET s == cur.sends[k] IN
        /\ s.submits <= 1
        /\ (s.result = "returned" => s.submits = 1)
        /\ (s.submits = 1 /\ s.status >= 400) => s.result = "raised"
        /\ (s.submits = 1 /\ s.status = 429) =>
               s.slept = (IF s.reset = NoHeader THEN 60
                            ELSE Max(0, s.reset - s.sent_at))

-----------------------------------------------------------------------------
(* C13 *)

\* the create_reply call a step ends returned: its one submission was
\* answered, with a status below 400
ReturnsReceipt ==
    /\ pc = "submit"
    /\ LET s == cur'.sends[Len(cur'.sends)] IN
       /\ s.result = "returned"
       /\ s.submits = 1
       /\ s.status # 0
       /\ s.status < 400

\* C13: tell_off calls update_reply_log(repo) exactly when the create_reply
\* call before it returned without raising; a step in which the account is
\* not eligible, or in which create_reply raises (authentication failure,
\* 429, any status >= 400, network error), leaves the ledger as it was.
C13_LedgerWrittenOnSuccessOnly ==
    [][/\ (updates' # updates) <=> ReturnsReceipt
       /\ (reply_log' # reply_log) <=> ReturnsReceipt
       /\ ReturnsReceipt =>
              /\ updates'[msg.repo].n = updates[msg.repo].n + 1
              /\ \A r \in Repos \ {msg.repo} : updates'[r] = updates[r]
       /\ Len(cur'.upserts) =
              Cardinality({k \in 1..Len(cur'.sends) :
                              cur'.sends[k].result = "returned"})]_vars

\* the reply for the first image was refused and left no row, the reply for
\* the second was accepted and wrote the row
C13_Witness ==
    /\ pc = "images"
    /\ Len(cur.sends) = 2
    /\ cur.sends[1].result = "raised"
    /\ cur.sends[1].status = 400
    /\ cur.sends[2].result = "returned"
    /\ cur.upserts = <<msg.repo>>
    /\ cur.log0 = {}
    /\ HasRow(reply_log, msg.repo)

-----------------------------------------------------------------------------
(* C14 *)

\* C14: whenever the subscription fails (client.start raises, or an exception
\* leaves the message loop), main waits 10 seconds, whatever the number of
\* failures before, and subscribes again; it does not end, so every faulted
\* state is followed by a connecting one.
C14_ReconnectsForever ==
    /\ [][pc = "faulted" => (pc' = "connecting" /\ now' = now + 10)]_vars
    /\ [][pc' = "faulted" => (faults' = faults + 1
                               /\ pc \in {"connecting", "streaming", "escaped"})]_vars
    /\ (pc = "faulted") ~> (pc = "connecting")

\* main subscribes again after its third failure
C14_Witness ==
    /\ pc = "connecting"
    /\ faults = 3

-----------------------------------------------------------------------------
(* C15 *)

\* C15: whenever create_reply submits, the token it sends is not expired at
\* the moment of the submission: that moment is before the cached
\* token_expiry.
C15_TokenFreshAtSubmission ==
    \A k \in 1..Len(cur.sends) :
        cur.sends[k].submits = 1 => cur.sends[k].sent_at < cur.sends[k].expiry

-----------------------------------------------------------------------------
(* C16 *)

\* the images of op i that were flagged, and the create_reply calls made for
\* them, by the end of the message
FlaggedImages(i) == {f \in cur.flagged : f[1] = i}
Attempts(i) == SelectSeq(cur.sends, LAMBDA s : s.op = i)
Successes(i) == {k \in 1..Len(Attempts(i)) : Attempts(i)[k].result = "returned"}
FirstSuccess(i) == CHOOSE k \in Successes(i) : \A l \in Successes(i) : k <= l

\* the attempts for op i are for its flagged images, one each, in order
InImageOrder(i) ==
    \A k \in 1..Len(Attempts(i)) :
        /\ <<i, Attempts(i)[k].img>> \in FlaggedImages(i)
        /\ Cardinality({f \in FlaggedImages(i) : f[2] <= Attempts(i)[k].img}) = k

\* C16 as stated: for a post with N flagged images the number of create_reply
\* calls is the position of the first one that returns, or N when none
\* returns, and at most one returns.
C16_AttemptsUpToFirstSuccess ==
    pc = "handled" =>
        \A i \in 1..Len(msg.ops) :
            /\ Cardinality(Successes(i)) <= 1
            /\ Len(Attempts(i)) = (IF Successes(i) # {} THEN FirstSuccess(i)
                                     ELSE Cardinality(FlaggedImages(i)))

\* C16, amended: the same for a post of an account that may be replied to
\* when the message arrives; for an account inside its cooldown no
\* create_reply call is made for any of the N images.
C16_AttemptsUpToFirstSuccessIfEligible ==
    pc = "handled" =>
        \A i \in 1..Len(msg.ops) :
            /\ Cardinality(Successes(i)) <= 1
            /\ InImageOrder(i)
            /\ Len(Attempts(i)) =
                  (IF ~ should_send_reply(cur.log0, msg.repo, cur.t0 + tz) THEN 0
                   ELSE IF Successes(i) # {} THEN FirstSuccess(i)
                   ELSE Cardinality(FlaggedImages(i)))

\* a post with two flagged images: the reply for the first one failed, the
\* reply for the second one was sent and recorded
C16_Witness ==
    /\ pc = "handled"
    /\ Cardinality(FlaggedImages(1)) = 2
    /\ Len(Attempts(1)) = 2
    /\ Successes(1) = {2}

-----------------------------------------------------------------------------
(* C17 *)

TokenStepFailed == authlog.result \in {"network_error", "http_error", "decode_error"}

\* C17: every submission of a reply comes after a successful
\* ensure_valid_token and a pause of 5 seconds, and is the only one of its
\* create_reply call; so two consecutive submissions are at least 5 seconds
\* apart, and no submission is made when the token step fails.
C17_TokenThenPacingThenSubmit ==
    /\ [][(pc' = "submit" /\ pc # "submit") =>
              /\ pc \in {"ensure_valid_token", "get_access_token"}
              /\ authlog'.result \in {"none", "returned"}
              /\ cur'.sends[Len(cur'.sends)].submits = 0]_vars
    /\ [][pc = "submit" =>
              /\ last_submit' = now + 5
              /\ last_submit # Never => last_submit' - last_submit >= 5
              /\ cur'.sends[Len(cur'.sends)].submits = 1
              /\ cur'.sends[Len(cur'.sends)].sent_at = last_submit'
              /\ now' >= last_submit']_vars
    /\ [][last_submit' # last_submit => pc = "submit"]_vars
    /\ [](TokenStepFailed =>
              /\ cur.sends[Len(cur.sends)].submits = 0
              /\ cur.sends[Len(cur.sends)].result = "raised")
    /\ [](last_submit # Never => last_submit <= now)

\* two submissions for the two images of a post, 5 seconds apart
C17_Witness ==
    /\ Len(cur.sends) = 2
    /\ cur.sends[1].submits = 1
    /\ cur.sends[2].submits = 1
    /\ cur.sends[2].sent_at = cur.sends[1].sent_at + 5
    /\ last_submit = cur.sends[2].sent_at

-----------------------------------------------------------------------------
(* C18 *)

\* op i of the message is not a create, or has no cid
NotACreate(i) == cur.msg.ops[i].action # "create" \/ ~ cur.msg.ops[i].hascid

\* C18: an op whose action is update or delete, or whose cid is empty, never
\* causes an eligibility check, a dispatch or a ledger write, whatever its
\* record holds.
C18_OnlyCreatesWithCid ==
    /\ \A i \in 1..Len(cur.msg.ops) :
          NotACreate(i) =>
              /\ \A f \in cur.flagged : f[1] # i
              /\ \A k \in 1..Len(cur.sends) : cur.sends[k].op # i
    /\ (cur.msg # NoMessage /\ \A i \in 1..Len(cur.msg.ops) : NotACreate(i)) =>
          /\ cur.upserts = <<>>
          /\ reply_log = cur.log0

\* an update and a create of posts with an image without alt text, in one
\* commit of an account without a row: only the create was answered
C18_Witness ==
    /\ pc = "handled"
    /\ Len(cur.msg.ops) = 2
    /\ cur.msg.ops[1] = Op("update", TRUE, Rec(POST, IMAGES, <<"">>))
    /\ cur.log0 = {}
    /\ cur.flagged = {<<2, 1>>}
    /\ Len(cur.sends) = 1
    /\ cur.sends[1].op = 2

-----------------------------------------------------------------------------
(* C19 *)

\* op k of the message is a created post with an image without alt text
FlaggablePost(k) ==
    /\ Created(cur.msg, k)
    /\ cur.msg.ops[k].rec.type = POST
    /\ cur.msg.ops[k].rec.embed = IMAGES
    /\ \E j \in 1..Len(cur.msg.ops[k].rec.images) : cur.msg.ops[k].rec.images[j] = ""

\* C19: when the processing of one op raises (its cid is not in the block
\* mapping, its record cannot be read), the ops after it in the same commit
\* are still processed: a flagged post in a later op gets its eligibility
\* check for each image without alt text and, when the account has no row and
\* no reply was sent before in the commit, its reply attempt.
C19_LaterOpsStillProcessed ==
    pc = "handled" =>
        \A i \in cur.raised :
            /\ cur.msg.ops[i].rec = NoRecord
            /\ \A f \in cur.flagged : f[1] # i
            /\ \A k \in (i + 1)..Len(cur.msg.ops) :
                  FlaggablePost(k) =>
                      /\ \A j \in 1..Len(cur.msg.ops[k].rec.images) :
                            cur.msg.ops[k].rec.images[j] = "" => <<k, j>> \in cur.flagged
                      /\ (/\ ~ HasRow(cur.log0, cur.msg.repo)
                          /\ \A n \in 1..Len(cur.sends) :
                                cur.sends[n].op < k => cur.sends[n].result # "returned")
                            => \E n \in 1..Len(cur.sends) : cur.sends[n].op = k

\* the first op of a commit raised and the post of the second was answered
C19_Witness ==
    /\ pc = "handled"
    /\ cur.raised = {1}
    /\ cur.flagged = {<<2, 1>>}
    /\ Len(cur.sends) = 1
    /\ cur.sends[1].op = 2
    /\ cur.sends[1].result = "returned"

-----------------------------------------------------------------------------
(* C20 *)

\* C20: a token whose JWT has no exp claim is cached with the expiry epoch 0
\* and is never taken for a valid cached token: every later
\* ensure_valid_token makes a new exchange. Whenever ensure_valid_token skips
\* the exchange, the cached expiry is the one decoded from the exp claim of
\* the token that is cached.
C20_NoExpNeverValid ==
    /\ [](access_token.kind = "jwt" =>
            token_expiry = (IF access_token.exp = NoExp THEN 0 ELSE access_token.exp))
    /\ [][(pc = "ensure_valid_token" /\ access_token.exp = NoExp) =>
              (pc' = "get_access_token" /\ authlog'.result = "running")]_vars
    /\ [][(pc = "ensure_valid_token" /\ pc' = "submit") =>
              /\ access_token.kind = "jwt"
              /\ access_token.exp # NoExp
              /\ token_expiry = access_token.exp
              /\ now < access_token.exp]_vars

\* a token without exp was cached for the first image of a post; for the
\* second image ensure_valid_token asks for a new one
C20_Witness ==
    /\ pc = "get_access_token"
    /\ authlog.exchanges = 0
    /\ authlog.tok0.kind = "jwt"
    /\ authlog.tok0.exp = NoExp
    /\ authlog.exp0 = 0
    /\ Len(cur.sends) = 2
    /\ cur.sends[1].submits = 1

====
